---------------------------- MODULE Spec2Model ----------------------------
(***************************************************************************)
(* A model of src/bg2625_lake.py: the FrozenLake grid MDP, its transition  *)
(* model get_transitions, value_iteration, extract_policy, Qlearner,       *)
(* get_best_action_value and simple_policy_rollout.                        *)
(*                                                                         *)
(* Numbers.  Python floats are modelled as fixed-point numbers:            *)
(*   - probabilities and gamma are integers counting tenths                *)
(*     (success_prob = 0.8 is 8, gamma = 0.9 is 9);                        *)
(*   - rewards, state values and Q-values are integers counting 1/Scale    *)
(*     (target_reward = 1.0 is Scale); an expression of the code is        *)
(*     evaluated exactly and rounded once (floor) to that unit;            *)
(*   - current_alpha and current_epsilon are integers counting             *)
(*     1/(10 * num_robots), in which alpha (tenths), the decrement         *)
(*     1/num_robots and the floor 0.1 * alpha compare exactly.             *)
(* Randomness (random.choices, random.uniform, random.choice) and the      *)
(* iteration order of the set self.states are nondeterministic choices.    *)
(***************************************************************************)
EXTENDS Integers, Sequences, FiniteSets

VARIABLES
  width, height, targets, holes, blocked, initial_state,  \* the lake (__init__)
  pc,              \* position of the routine being run
  state, action,   \* get_transitions' arguments; the current state of a loop
  result,          \* the list get_transitions returned
  threshold, values, values1, delta, todo,   \* value_iteration
  policy, best,    \* extract_policy's result; get_best_action_value's result
  alpha, epsilon, num_robots, robot_count, current_alpha, current_epsilon,
  Qvalues, chosen_action, next_state,        \* Qlearner
  rewards, steps,  \* simple_policy_rollout's rewards; number of loop steps taken
  ret              \* the value a routine returned

lakeVars == <<width, height, targets, holes, blocked, initial_state>>
transVars == <<action, result>>
viVars == <<threshold, values, values1, delta, todo>>
greedyVars == <<policy, best>>
qVars == <<alpha, epsilon, num_robots, robot_count, current_alpha,
           current_epsilon, Qvalues, chosen_action, next_state>>
rollVars == <<rewards>>
vars == <<lakeVars, pc, state, transVars, viVars, greedyVars, qVars,
          rollVars, steps, ret>>

----------------------------------------------------------------------------
(* Bounds of the model *)

MaxCells == 6      \* get_transitions is applied on every lake of at most MaxCells cells
MaxCellsVI == 4    \* value_iteration is run on every lake of at most MaxCellsVI cells
MaxCellsGreedy == 3  \* the greedy choices are made on every lake of at most this many cells
MaxCellsQ == 3     \* Qlearner is run on every lake of at most MaxCellsQ cells
MaxRobots == 2     \* num_robots is at most MaxRobots
MaxQSteps == 3     \* a run of Qlearner is followed for MaxQSteps loop steps
MaxSteps == 4      \* a rollout is followed for MaxSteps moves
MaxCellsRoll == 3  \* rollouts are run on every lake of at most MaxCellsRoll cells
Scale == 1000      \* fixed-point resolution: 1.0 is Scale units

----------------------------------------------------------------------------
(* FrozenLake.__init__ *)

actions == <<"n", "s", "e", "w">>
Actions == {actions[i] : i \in 1..Len(actions)}

gamma == 9
success_prob == 8
hole_reward == (0 - 5) * Scale
target_reward == 1 * Scale
living_reward == 0 - (Scale \div 10)

None == <<>>

Cells(w, h) == (0..(w - 1)) \X (0..(h - 1))

\* self.states: the cells that are neither target, hole nor blocked
states ==
  {c \in Cells(width, height) : c \notin targets /\ c \notin holes /\ c \notin blocked}

\* The sizes (width, height >= 1) of the lakes of at most n cells.
LakeSizes(n) == {wh \in (1..n) \X (1..n) : wh[1] * wh[2] <= n}

\* Cell classifications of a w x h grid.
Classes(w, h) == [Cells(w, h) -> {"free", "target", "hole", "blocked"}]

----------------------------------------------------------------------------
(* get_transitions *)

SuccessOf(a, x, y) ==
  CASE a = "n" -> <<x, y - 1>>
    [] a = "s" -> <<x, y + 1>>
    [] a = "e" -> <<x + 1, y>>
    [] a = "w" -> <<x - 1, y>>

FailOf(a, x, y) ==
  CASE a = "n" -> <<<<x + 1, y>>, <<x - 1, y>>>>
    [] a = "s" -> <<<<x + 1, y>>, <<x - 1, y>>>>
    [] a = "e" -> <<<<x, y - 1>>, <<x, y + 1>>>>
    [] a = "w" -> <<<<x, y - 1>>, <<x, y + 1>>>>

\* the test of lines 56-58 and 64-66, ignoring the blocked cells
OffGridOnly(c) ==
  c[1] < 0 \/ c[1] > width - 1 \/ c[2] < 0 \/ c[2] > height - 1

\* the test of lines 56-58 and 64-66: off the grid, or blocked
OffGridOrBlocked(c) ==
  c[1] < 0 \/ c[1] > width - 1 \/ c[2] < 0 \/ c[2] > height - 1 \/ c \in blocked

\* a candidate that cannot be entered adds nothing to remain_p: its mass is lost
remain_add_dropped(c, p) == 0

\* What a candidate destination c of probability p adds to remain_p
\* (lines 56-59 and 64-67).
remain_add(c, p) == IF OffGridOrBlocked(c) THEN p ELSE 0

\* What a candidate destination c of probability p appends to result
\* (lines 60-61 and 68-69).
result_add(c, p) == IF OffGridOrBlocked(c) THEN <<>> ELSE << <<c, p>> >>

get_transitions(st, a) ==
  LET x == st[1]
      y == st[2]
      success == SuccessOf(a, x, y)
      fail == FailOf(a, x, y)
      fail_prob == (10 - success_prob) \div 2
      remain_p == remain_add(success, success_prob)
                    + remain_add(fail[1], fail_prob) + remain_add(fail[2], fail_prob)
      res == result_add(success, success_prob)
               \o result_add(fail[1], fail_prob) \o result_add(fail[2], fail_prob)
  IN  IF remain_p > 0 THEN Append(res, <<st, remain_p>>) ELSE res

----------------------------------------------------------------------------
(* Idle values of the variables a routine does not use *)

IdleTrans == action = None /\ result = None
IdleVI == threshold = 0 /\ values = None /\ values1 = None /\ delta = 0 /\ todo = {}
IdleGreedy == policy = None /\ best = None
IdleQ ==
  /\ alpha = 0 /\ epsilon = 0 /\ num_robots = 0 /\ robot_count = 0
  /\ current_alpha = 0 /\ current_epsilon = 0
  /\ Qvalues = None /\ chosen_action = None /\ next_state = None
IdleRoll == rewards = 0

----------------------------------------------------------------------------
(* Before the lake is built, and the constructor *)

Init ==
  /\ width = 0 /\ height = 0 /\ targets = {} /\ holes = {} /\ blocked = {}
  /\ initial_state = None
  /\ pc = "new"
  /\ state = None
  /\ IdleTrans /\ IdleVI /\ IdleGreedy /\ IdleQ /\ IdleRoll
  /\ steps = 0
  /\ ret = None

\* FrozenLake(width, height, start, targets, blocked, holes) for a lake of at most
\* n cells: every size (width, height >= 1) and every classification of the cells
\* as free, target, hole or blocked (the three sets disjoint and inside the grid);
\* start is any cell of `starts`.
Construct(n, starts) ==
  /\ pc = "new"
  /\ \E wh \in LakeSizes(n) :
     \E cls \in Classes(wh[1], wh[2]) :
     \E start \in Cells(wh[1], wh[2]) \cap starts :
       /\ width' = wh[1]
       /\ height' = wh[2]
       /\ targets' = {c \in Cells(wh[1], wh[2]) : cls[c] = "target"}
       /\ holes' = {c \in Cells(wh[1], wh[2]) : cls[c] = "hole"}
       /\ blocked' = {c \in Cells(wh[1], wh[2]) : cls[c] = "blocked"}
       /\ initial_state' = start
  /\ pc' = "ready"
  /\ UNCHANGED <<state, transVars, viVars, greedyVars, qVars, rollVars, steps, ret>>

\* the start of __main__, line 351
Origin == {<<0, 0>>}

----------------------------------------------------------------------------
(* Specification of get_transitions: any free state and action of any lake *)

ConstructTrans == Construct(MaxCells, Origin)

GetTransitions ==
  /\ pc = "ready"
  /\ \E s \in states, a \in Actions :
       /\ state' = s
       /\ action' = a
       /\ result' = get_transitions(s, a)
  /\ pc' = "trans_returned"
  /\ UNCHANGED <<lakeVars, viVars, greedyVars, qVars, rollVars, steps, ret>>

NextTrans == ConstructTrans \/ GetTransitions

SpecTrans == Init /\ [][NextTrans]_vars

RECURSIVE SumProb(_)
SumProb(list) ==
  IF list = <<>> THEN 0 ELSE list[1][2] + SumProb(Tail(list))

\* The candidate destinations of (st, a), success first, with their probabilities.
CandidatesOf(st, a) ==
  LET f == FailOf(a, st[1], st[2])
  IN  << <<SuccessOf(a, st[1], st[2]), 8>>, <<f[1], 1>>, <<f[2], 1>> >>

Enterable(c) == c \in Cells(width, height) /\ c \notin blocked

\* The mass of the candidates of (st, a) that cannot be entered.
RemainMass(st, a) ==
  LET c == CandidatesOf(st, a)
      m(i) == IF Enterable(c[i][1]) THEN 0 ELSE c[i][2]
  IN  m(1) + m(2) + m(3)

\* C2: the probabilities get_transitions returns are non-negative and sum to
\* exactly 1 (10 tenths), for every lake, free state and action.
C2_ProbabilitiesSumToOne ==
  pc = "trans_returned" =>
    /\ \A i \in 1..Len(result) : result[i][2] >= 0
    /\ SumProb(result) = 10

\* A call in which the success destination is blocked, one failure destination is
\* off the grid and the other is entered.
C2_Witness ==
  /\ pc = "trans_returned"
  /\ SuccessOf(action, state[1], state[2]) \in blocked
  /\ Len(result) = 2
  /\ result[2] = <<state, 9>>

\* C7: every successor get_transitions returns is a cell of the grid that is not
\* blocked; the mass of the candidates that are off the grid or blocked is in one
\* entry for the state itself, present iff that mass is positive; and the
\* successors are pairwise distinct.
C7_SuccessorsValid ==
  pc = "trans_returned" =>
    LET rem == RemainMass(state, action)
    IN  /\ \A i \in 1..Len(result) : Enterable(result[i][1])
        /\ rem > 0 <=> (\E i \in 1..Len(result) : result[i] = <<state, rem>>)
        /\ rem = 0 => (\A i \in 1..Len(result) : result[i][1] # state)
        /\ \A i, j \in 1..Len(result) : i # j => result[i][1] # result[j][1]

\* A call with no remain entry (all three candidates entered), and a lake with a
\* blocked cell next to the state.
C7_Witness ==
  /\ pc = "trans_returned"
  /\ Len(result) = 3
  /\ \A i \in 1..3 : result[i][1] # state
  /\ blocked # {}

----------------------------------------------------------------------------
(* value_iteration *)

Abs(i) == IF i < 0 THEN 0 - i ELSE i
Max(i, j) == IF i >= j THEN i ELSE j

\* s1_reward of lines 224-232 for the successor s1, tab being the table looked up
s1_reward(tab, s1) ==
  IF s1 \in targets THEN target_reward
  ELSE IF s1 \in holes THEN hole_reward
  ELSE IF s1 \in blocked THEN 0
  ELSE tab[s1]

\* Line 234 for the i-th transition of list, in units of 1/(100 * Scale):
\* p * (living_reward + gamma * s1_reward) with p and gamma in tenths.
Term100(tab, list, i) ==
  list[i][2] * (10 * living_reward + gamma * s1_reward(tab, list[i][1]))

\* The loop of lines 223-234 from the i-th transition on.
RECURSIVE TransSum100(_, _, _)
TransSum100(tab, list, i) ==
  IF i > Len(list) THEN 0 ELSE Term100(tab, list, i) + TransSum100(tab, list, i + 1)

\* trans_sum of lines 220-235 for (st, a), rounded to 1/Scale
trans_sum(tab, st, a) == TransSum100(tab, get_transitions(st, a), 1) \div 100

\* action_values of lines 218-235, in the order of self.actions
action_values(tab, st) == [i \in 1..Len(actions) |-> trans_sum(tab, st, actions[i])]

\* max(action_values) of line 237
max_action_value(tab, st) ==
  LET av == action_values(tab, st)
  IN  CHOOSE m \in {av[i] : i \in 1..Len(av)} : \A i \in 1..Len(av) : av[i] <= m

\* an in-place (Gauss-Seidel) update, reading the table being written
NewValueInPlace(st) == max_action_value(values, st)

\* The value line 238 stores for st: computed from values1, the copy line 216 took.
NewValue(st) == max_action_value(values1, st)

\* The thresholds value_iteration is called with: zero, the default 0.001 and 0.2.
Thresholds == {0, Scale \div 1000, Scale \div 5}

ConstructVI == Construct(MaxCellsVI, Origin)

\* value_iteration(threshold) is called: line 213
VICall ==
  /\ pc = "ready"
  /\ threshold' \in Thresholds
  /\ values' = [s \in states |-> 0]
  /\ pc' = "vi_while"
  /\ UNCHANGED <<lakeVars, state, transVars, values1, delta, todo, greedyVars,
                 qVars, rollVars, steps, ret>>

\* lines 214-216: a sweep begins
VISweep ==
  /\ pc = "vi_while"
  /\ delta' = 0
  /\ values1' = values
  /\ todo' = states
  /\ pc' = "vi_for"
  /\ UNCHANGED <<lakeVars, state, transVars, threshold, values, greedyVars,
                 qVars, rollVars, steps, ret>>

\* lines 217-242: the body of the for loop, for the next state s of the set (any
\* state not yet visited in this sweep)
VIState ==
  /\ pc = "vi_for"
  /\ \E s \in todo :
       LET v == NewValue(s)
           d == Max(delta, Abs(v - values1[s]))
       IN  /\ values' = [values EXCEPT ![s] = v]
           /\ delta' = d
           /\ todo' = todo \ {s}
           /\ pc' = IF d < threshold THEN "vi_done" ELSE "vi_for"
           /\ ret' = IF d < threshold THEN values1 ELSE ret
  /\ UNCHANGED <<lakeVars, state, transVars, threshold, values1, greedyVars,
                 qVars, rollVars, steps>>

\* the for loop is exhausted: back to line 214
VISweepEnd ==
  /\ pc = "vi_for"
  /\ todo = {}
  /\ pc' = "vi_while"
  /\ UNCHANGED <<lakeVars, state, transVars, viVars, greedyVars, qVars,
                 rollVars, steps, ret>>

NextVI == ConstructVI \/ VICall \/ VISweep \/ VIState \/ VISweepEnd

\* The body of the for loop can run: it is enabled exactly then, and each of its
\* steps removes a state from todo.
VIStateEnabled == pc = "vi_for" /\ todo # {}

\* The loop is sequential code: once called, it always takes its next step. The
\* third conjunct is WF_vars(VIState), with ENABLED <<VIState>>_vars written out
\* as VIStateEnabled.
FairVI ==
  /\ WF_vars(VISweep)
  /\ WF_vars(VISweepEnd)
  /\ ([]<>(~VIStateEnabled) \/ []<><<VIState>>_vars)

SpecVI == Init /\ [][NextVI]_vars /\ FairVI

\* C1: value_iteration returns only once the maximum over all free states of
\* |new[s] - prev[s]| is below threshold: every free state s of the returned
\* table V has |max_a Q(s,a) from V - V[s]| < threshold.
C1_ReturnsConverged ==
  pc = "vi_done" =>
    \A s \in states : Abs(max_action_value(ret, s) - ret[s]) < threshold

\* C4: with threshold > 0 value_iteration eventually returns, on every lake
\* (also one with no free cell); with threshold <= 0 it never returns.
C4_Terminates ==
  /\ (pc = "vi_while" /\ threshold > 0) ~> (pc = "vi_done")
  /\ [](threshold <= 0 => pc # "vi_done")

\* value_iteration returns on every lake with a free cell when threshold > 0
C4_TerminatesNonEmpty ==
  (pc = "vi_while" /\ threshold > 0 /\ states # {}) ~> (pc = "vi_done")

C4_NeverWithoutThreshold ==
  threshold <= 0 => pc # "vi_done"

\* C9: within a sweep every value written is computed from the snapshot values1
\* taken at the start of the sweep, the values not yet written are those of the
\* snapshot, and the table returned is that snapshot.
C9_Synchronous ==
  /\ pc \in {"vi_for", "vi_done"} =>
       \A s \in states :
         values[s] = IF s \in todo THEN values1[s] ELSE max_action_value(values1, s)
  /\ pc = "vi_done" => ret = values1

\* A return in the second sweep or later, after a state whose new value, written
\* in the final sweep, differs from the value the returned table holds for it.
C9_Witness ==
  /\ pc = "vi_done"
  /\ \E s \in states : ret[s] # 0
  /\ \E s \in states \ todo : values[s] # ret[s]

----------------------------------------------------------------------------
(* extract_policy and get_best_action_value *)

\* state_reward of lines 258-264 for next_state
state_reward(tab, ns) ==
  IF ns \in targets THEN target_reward
  ELSE IF ns \in holes THEN hole_reward
  ELSE tab[ns]

\* The loop of lines 257-266 from the i-th transition on, in units of
\* 1/(100 * Scale).
RECURSIVE PolicySum100(_, _, _)
PolicySum100(tab, list, i) ==
  IF i > Len(list) THEN 0
  ELSE list[i][2] * (10 * living_reward + gamma * state_reward(tab, list[i][1]))
         + PolicySum100(tab, list, i + 1)

\* action_sum of lines 253-267, in the order of self.actions
action_sum(tab, st) ==
  [i \in 1..Len(actions) |->
     PolicySum100(tab, get_transitions(st, actions[i]), 1) \div 100]

\* the index of the last maximum
argmax_last(seq) ==
  CHOOSE i \in 1..Len(seq) :
    /\ \A j \in 1..Len(seq) : seq[j] <= seq[i]
    /\ \A j \in (i + 1)..Len(seq) : seq[j] < seq[i]

\* numpy.argmax (line 268): the index of the first maximum
argmax(seq) ==
  CHOOSE i \in 1..Len(seq) :
    /\ \A j \in 1..Len(seq) : seq[j] <= seq[i]
    /\ \A j \in 1..(i - 1) : seq[j] < seq[i]

extract_policy(tab) == [st \in states |-> actions[argmax(action_sum(tab, st))]]

\* Python's max(keys, key = ...) of line 340 on action_value_map, whose keys are in
\* the order of self.actions (lines 337-338): the first key of the largest value.
max_key(Q, st) ==
  CHOOSE a \in Actions :
    \E i \in 1..Len(actions) :
      /\ a = actions[i]
      /\ \A j \in 1..Len(actions) : Q[<<st, actions[j]>>] <= Q[<<st, a>>]
      /\ \A j \in 1..(i - 1) : Q[<<st, actions[j]>>] < Q[<<st, a>>]

get_best_action_value(Q, st) == <<max_key(Q, st), Q[<<st, max_key(Q, st)>>]>>

\* The state values extract_policy is applied to, and the Q-values of the row
\* get_best_action_value reads.
ValueSet == {0 - Scale, 0, Scale \div 2}

\* Q-tables over every free state and action: one row drawn from ValueSet, the
\* other rows at their initial 0.
QTables ==
  {[sa \in states \X Actions |-> IF sa[1] = st THEN row[sa[2]] ELSE 0] :
     st \in states, row \in [Actions -> ValueSet]}

ConstructGreedy == Construct(MaxCellsGreedy, Origin)

ExtractPolicy ==
  /\ pc = "ready"
  /\ \E tab \in [states -> ValueSet] :
       /\ values' = tab
       /\ policy' = extract_policy(tab)
  /\ pc' = "policy_returned"
  /\ UNCHANGED <<lakeVars, state, transVars, threshold, values1, delta, todo,
                 best, qVars, rollVars, steps, ret>>

GetBestActionValue ==
  /\ pc = "ready"
  /\ \E Q \in QTables, st \in states :
       /\ Qvalues' = Q
       /\ state' = st
       /\ best' = get_best_action_value(Q, st)
  /\ pc' = "best_returned"
  /\ UNCHANGED <<lakeVars, transVars, viVars, policy, alpha, epsilon, num_robots,
                 robot_count, current_alpha, current_epsilon, chosen_action,
                 next_state, rollVars, steps, ret>>

NextGreedy == ConstructGreedy \/ ExtractPolicy \/ GetBestActionValue

SpecGreedy == Init /\ [][NextGreedy]_vars

\* Q(s, a) of the value function tab: the sum over the transitions of
\* p * (living_reward + gamma * value(s')), value(s') being the fixed reward of a
\* target or hole and tab[s'] otherwise.
QOf(tab, st, a) ==
  LET t == get_transitions(st, a)
      val(c) == IF c \in targets THEN target_reward
                ELSE IF c \in holes THEN hole_reward ELSE tab[c]
      term(i) == IF i > Len(t) THEN 0
                 ELSE t[i][2] * (10 * living_reward + gamma * val(t[i][1]))
  IN  (term(1) + term(2) + term(3) + term(4)) \div 100

\* i is the index of the first maximum of the sequence q
FirstMaxAt(q, i) ==
  /\ \A j \in 1..Len(q) : q[j] <= q[i]
  /\ \A j \in 1..(i - 1) : q[j] < q[i]

\* C8: extract_policy assigns to every free state, and only to free states, the
\* first action in the order (n, s, e, w) whose Q(s, a) is maximal, and
\* get_best_action_value returns the first action in that order of maximal
\* Q-value, with that Q-value.
C8_FirstMaximalAction ==
  /\ pc = "policy_returned" =>
       /\ DOMAIN policy = states
       /\ \A st \in states :
            LET q == [j \in 1..Len(actions) |-> QOf(values, st, actions[j])]
            IN  \E i \in 1..Len(actions) : policy[st] = actions[i] /\ FirstMaxAt(q, i)
  /\ pc = "best_returned" =>
       LET q == [j \in 1..Len(actions) |-> Qvalues[<<state, actions[j]>>]]
       IN  \E i \in 1..Len(actions) : best = <<actions[i], q[i]>> /\ FirstMaxAt(q, i)

\* A policy extracted where two actions tie for the maximum at some state and
\* the one chosen is not the first action of the order.
C8_Witness ==
  /\ pc = "policy_returned"
  /\ \E st \in states :
       \E i, j \in 2..Len(actions) :
         /\ i < j
         /\ policy[st] = actions[i]
         /\ QOf(values, st, actions[i]) = QOf(values, st, actions[j])

----------------------------------------------------------------------------
(* Qlearner *)

\* the (1 - current_alpha) * Q + current_alpha * (...) of lines 309-322 without
\* the discount of the bootstrap value
q_update_undiscounted(q, ca, n, boot) ==
  ((10 * n - ca) * q * 10 + ca * (10 * living_reward + 10 * boot)) \div (100 * n)

\* The right-hand side of lines 309-310, 316-317 and 321-322:
\* (1 - current_alpha) * q + current_alpha * (living_reward + gamma * boot), with
\* current_alpha = ca / (10 * n), rounded to 1/Scale.
q_update(q, ca, n, boot) ==
  ((10 * n - ca) * q * 10 + ca * (10 * living_reward + gamma * boot)) \div (100 * n)

\* only a target ends an episode
ends_episode_target_only(ns) == ns \in targets

\* The tests of lines 307 and 314: the episode ends when next_state is a target or
\* a hole.
ends_episode(ns) == ns \in targets \/ ns \in holes

\* The value the update bootstraps from (lines 310, 317, 322), Q being the table
\* before the assignment.
bootstrap(Q, ns) ==
  IF ns \in targets THEN target_reward
  ELSE IF ns \in holes THEN hole_reward
  ELSE get_best_action_value(Q, ns)[2]

\* Lines 325-329 for one of current_alpha and current_epsilon: cur and the initial
\* value a0 (tenths) in units of 1/(10 * n); the floor is 0.1 * a0.
anneal(cur, a0, rc, n) ==
  IF 5 * rc < n /\ 10 * cur > a0 * n THEN cur - 10 ELSE cur

\* The actions line 297-300 can choose: random.uniform(0, 1) lies in [0, 1), so a
\* random action is possible when current_epsilon > 0 and the best action when
\* current_epsilon < 1.
Choices(Q, st, ce, n) ==
  (IF ce > 0 THEN Actions ELSE {})
    \cup (IF ce < 10 * n THEN {get_best_action_value(Q, st)[1]} ELSE {})

\* move (lines 75-81): random.choices draws one successor of positive weight
MoveTo(st, a) ==
  LET t == get_transitions(st, a)
  IN  {t[i][1] : i \in {j \in 1..Len(t) : t[j][2] > 0}}

\* the alpha and epsilon Qlearner is called with, in tenths (0.6 is __main__'s)
Alphas == {6, 10}
Epsilons == {1, 6}

ConstructQ == Construct(MaxCellsQ, Origin)

\* Qlearner(alpha, epsilon, num_robots) is called: lines 280-292
QCall ==
  /\ pc = "ready"
  /\ initial_state \in states
  /\ \E a0 \in Alphas, e0 \in Epsilons, n \in 1..MaxRobots :
       /\ alpha' = a0
       /\ epsilon' = e0
       /\ num_robots' = n
       /\ robot_count' = n
       /\ current_alpha' = a0 * n
       /\ current_epsilon' = e0 * n
  /\ Qvalues' = [sa \in states \X Actions |-> 0]
  /\ state' = initial_state
  /\ steps' = 0
  /\ pc' = "q_while"
  /\ UNCHANGED <<lakeVars, transVars, viVars, greedyVars, chosen_action,
                 next_state, rollVars, ret>>

\* one iteration of the while loop: lines 293-329
QStep ==
  /\ pc = "q_while"
  /\ robot_count > 0
  /\ steps < MaxQSteps
  /\ \E c \in Choices(Qvalues, state, current_epsilon, num_robots) :
     \E ns \in MoveTo(state, c) :
       LET rc == IF ends_episode(ns) THEN robot_count - 1 ELSE robot_count
       IN  /\ chosen_action' = c
           /\ next_state' = ns
           /\ robot_count' = rc
           /\ Qvalues' = [Qvalues EXCEPT ![<<state, c>>] =
                 q_update(Qvalues[<<state, c>>], current_alpha, num_robots,
                          bootstrap(Qvalues, ns))]
           /\ state' = IF ends_episode(ns) THEN initial_state ELSE ns
           /\ current_alpha' = anneal(current_alpha, alpha, rc, num_robots)
           /\ current_epsilon' = anneal(current_epsilon, epsilon, rc, num_robots)
  /\ steps' = steps + 1
  /\ UNCHANGED <<lakeVars, pc, transVars, viVars, greedyVars, alpha, epsilon,
                 num_robots, rollVars, ret>>

\* the while test fails: line 332
QReturn ==
  /\ pc = "q_while"
  /\ ~(robot_count > 0)
  /\ ret' = Qvalues
  /\ pc' = "q_done"
  /\ UNCHANGED <<lakeVars, state, transVars, viVars, greedyVars, qVars,
                 rollVars, steps>>

NextQ == ConstructQ \/ QCall \/ QStep \/ QReturn

SpecQ == Init /\ [][NextQ]_vars

InQ == pc \in {"q_while", "q_done"}

\* C3: current_alpha and current_epsilon never fall below their floors
\* 0.1 * alpha and 0.1 * epsilon (in particular never below 0).
C3_AnnealingClamped ==
  InQ => /\ 10 * current_alpha >= alpha * num_robots
         /\ 10 * current_epsilon >= epsilon * num_robots
         /\ current_alpha >= 0
         /\ current_epsilon >= 0

\* a loop step of Qlearner
IsQStep == pc = "q_while" /\ pc' = "q_while" /\ steps' = steps + 1

\* C5: a step to a target or hole decrements the budget by 1 and resets the
\* state to initial_state, a step to a free state leaves the budget and moves
\* there; the budget stays in 0..num_robots, the state stays free, and Qlearner
\* returns exactly when the budget is 0.
C5_Budget ==
  /\ [](InQ => /\ robot_count \in 0..num_robots
               /\ state \in states
               /\ (pc = "q_done" => robot_count = 0))
  /\ [][IsQStep =>
          /\ robot_count > 0
          /\ next_state' \in (targets \cup holes) =>
               robot_count' = robot_count - 1 /\ state' = initial_state
          /\ next_state' \notin (targets \cup holes) =>
               /\ next_state' \in states
               /\ robot_count' = robot_count
               /\ state' = next_state']_vars
  /\ [][(pc = "q_while" /\ robot_count = 0) => pc' = "q_done"]_vars

\* The last robot has arrived at a hole and Qlearner has returned.
C5_Witness ==
  /\ pc = "q_done"
  /\ num_robots = 2
  /\ next_state \in holes
  /\ steps > 2

\* C6: a step from state s with chosen action c and next state s' changes only
\* the entry (s, c), to (1 - alpha) * Q(s,c) + alpha * (living_reward + gamma *
\* bootstrap) for the current alpha, bootstrap being target_reward, hole_reward or
\* max_a Q(s',a) of the table before the update; the keys stay states x actions.
C6_OneEntryUpdated ==
  /\ [](InQ => DOMAIN Qvalues = states \X Actions)
  /\ [][IsQStep =>
          LET c == chosen_action'
              ns == next_state'
              boot == IF ns \in targets THEN target_reward
                      ELSE IF ns \in holes THEN hole_reward
                      ELSE CHOOSE m \in {Qvalues[<<ns, a>>] : a \in Actions} :
                             \A a \in Actions : Qvalues[<<ns, a>>] <= m
              new == ((10 * num_robots - current_alpha) * 10 * Qvalues[<<state, c>>]
                        + current_alpha * (10 * living_reward + gamma * boot))
                       \div (100 * num_robots)
          IN  /\ Qvalues'[<<state, c>>] = new
              /\ \A sa \in DOMAIN Qvalues :
                   sa # <<state, c>> => Qvalues'[sa] = Qvalues[sa]]_vars

\* A step that stays in place (s' = s, a free state) after the table has become
\* non-zero there: the bootstrap value is read from the entry being written.
C6_Witness ==
  /\ pc = "q_while"
  /\ steps >= 2
  /\ next_state = state
  /\ next_state \notin (targets \cup holes)
  /\ \E a \in Actions : Qvalues[<<state, a>>] # 0
  /\ \E sa \in DOMAIN Qvalues : sa[1] # state /\ Qvalues[sa] # 0

----------------------------------------------------------------------------
(* simple_policy_rollout *)

\* a return that adds no terminal reward
rollout_return_bare(st, rew) ==
  IF st \in targets THEN <<TRUE, rew>> ELSE <<FALSE, rew>>

\* The value lines 90-93 return when st is a target or a hole.
rollout_return(st, rew) ==
  IF st \in targets THEN <<TRUE, rew + target_reward>>
  ELSE <<FALSE, rew + hole_reward>>

ConstructRoll == Construct(MaxCellsRoll, Cells(MaxCellsRoll, MaxCellsRoll))

\* simple_policy_rollout(policy) is called with a policy over the free states
\* (as extract_policy returns): lines 87-88
RollCall ==
  /\ pc = "ready"
  /\ policy' \in [states -> Actions]
  /\ state' = initial_state
  /\ rewards' = 0
  /\ steps' = 0
  /\ pc' = "roll_loop"
  /\ UNCHANGED <<lakeVars, transVars, viVars, best, qVars, ret>>

\* lines 90-93
RollReturn ==
  /\ pc = "roll_loop"
  /\ state \in targets \/ state \in holes
  /\ ret' = rollout_return(state, rewards)
  /\ pc' = "roll_done"
  /\ UNCHANGED <<lakeVars, state, transVars, viVars, greedyVars, qVars,
                 rollVars, steps>>

\* lines 94-95
RollMove ==
  /\ pc = "roll_loop"
  /\ state \notin targets /\ state \notin holes
  /\ state \in DOMAIN policy
  /\ steps < MaxSteps
  /\ state' \in MoveTo(state, policy[state])
  /\ rewards' = rewards + living_reward
  /\ steps' = steps + 1
  /\ UNCHANGED <<lakeVars, pc, transVars, viVars, greedyVars, qVars, ret>>

\* line 94 when the start is a blocked cell, which the policy has no entry for:
\* policy[state] raises KeyError
RollKeyError ==
  /\ pc = "roll_loop"
  /\ state \notin targets /\ state \notin holes
  /\ state \notin DOMAIN policy
  /\ pc' = "roll_raised"
  /\ UNCHANGED <<lakeVars, state, transVars, viVars, greedyVars, qVars,
                 rollVars, steps, ret>>

NextRoll == ConstructRoll \/ RollCall \/ RollReturn \/ RollMove \/ RollKeyError

SpecRoll == Init /\ [][NextRoll]_vars

\* C10: the rollout starts at initial_state; it returns exactly when the state is
\* a target or a hole, after k moves with (True, k * living_reward +
\* target_reward) on a target and (False, k * living_reward + hole_reward) on a
\* hole; it never returns while the state is free.
C10_Rollout ==
  /\ [](pc = "roll_done" =>
          \/ state \in targets /\ ret = <<TRUE, steps * living_reward + target_reward>>
          \/ state \in holes /\ ret = <<FALSE, steps * living_reward + hole_reward>>)
  /\ [][pc = "ready" /\ pc' = "roll_loop" => state' = initial_state /\ steps' = 0]_vars
  /\ [][(pc = "roll_loop" /\ (state \in targets \/ state \in holes))
          => pc' = "roll_done"]_vars
  /\ [][(pc = "roll_loop" /\ state \in states) => pc' # "roll_done"]_vars

\* A rollout that returned failure at a hole after three moves.
C10_Witness ==
  /\ pc = "roll_done"
  /\ steps = 3
  /\ state \in holes
  /\ ret[1] = FALSE

============================================================================
